---- MODULE Spec2Model ----
(***************************************************************************)
(* The teacher dashboard of src/pages/teacher.py as a state machine: one   *)
(* run of the page script, statement block by statement block.  Every      *)
(* st.* call that shows a derived value is an output of the run; an        *)
(* exception anywhere inside the try block moves the run to the except     *)
(* branch with the outputs already shown left on the page.                 *)
(***************************************************************************)
EXTENDS Integers, Sequences, FiniteSets, TLC

VARIABLES
    pc,            \* position of the run in the script
    data,          \* what fetch_data() returned
    df,            \* the DataFrame built from data
    total,         \* len(df) as shown by the first metric
    q_pass,        \* <<q1_pass, q2_pass, q3_pass>>
    pass_counts,   \* the rows of the pass/fail chart
    df_time,       \* the hourly series
    search_id,     \* the text of the search box
    display_df,    \* the rows left by the search
    choice,        \* the position picked in the select box
    selected,      \* the option st.selectbox returned
    row,           \* the row shown in the detail panel
    table,         \* the rows of the displayed table
    csv,           \* the rows of the export buffer
    outputs,       \* the derived outputs shown so far in this run
    errorShown,    \* st.error was called (the except branch)
    emptyShown     \* st.info of the empty data set was called

vars == <<pc, data, df, total, q_pass, pass_counts, df_time, search_id,
          display_df, choice, selected, row, table, csv, outputs, errorShown, emptyShown>>

----------------------------------------------------------------------------
(* Bounds of the model. *)
MaxRecords == 2
MaxHour == 2
MaxQueryLen == 2

----------------------------------------------------------------------------
(* Cell values.  A string is its sequence of characters; a JSON null is    *)
(* None, a key some record lacks becomes NaN in the frame, and a parsed    *)
(* created_at is a timestamp in minutes.                                   *)
Str(s) == [kind |-> "str", v |-> s]
None == [kind |-> "none", v |-> <<>>]
NaN == [kind |-> "nan", v |-> <<>>]
Ts(t) == [kind |-> "ts", v |-> <<t>>]
IsNA(x) == x.kind \in {"none", "nan"}

RECURSIVE SeqsUpTo(_, _)
SeqsUpTo(S, n) ==
    IF n = 0 THEN {<<>>}
    ELSE LET shorter == SeqsUpTo(S, n - 1)
         IN  shorter \cup {Append(s, x) : s \in {t \in shorter : Len(t) = n - 1}, x \in S}

RECURSIVE SumSeq(_)
SumSeq(s) == IF s = <<>> THEN 0 ELSE Head(s) + SumSeq(Tail(s))

----------------------------------------------------------------------------
(* fetch_data(): the rows of the table, nothing, or an exception. *)
Rows(rs) == [kind |-> "rows", rows |-> rs]
NoData == [kind |-> "none", rows |-> <<>>]
NotFetched == [kind |-> "unset", rows |-> <<>>]

\* Falsy as `data is None` would have it: an empty list is not caught
FalsyNoneOnly(d) == d.kind = "none"

\* `not data` of line 29
Falsy(d) == d.kind = "none" \/ d.rows = <<>>

\* pd.DataFrame(data): the columns are the union of the records' keys and a
\* key a record lacks is NaN in that record's row
DataFrame(rs) ==
    LET cols == UNION {DOMAIN rs[i] : i \in 1..Len(rs)}
    IN  [columns |-> cols,
         rows |-> [i \in 1..Len(rs) |->
                     [c \in cols |-> IF c \in DOMAIN rs[i] THEN rs[i][c] ELSE NaN]]]

NoFrame == [columns |-> {}, rows |-> <<>>]

\* the characters to_datetime reads as digits
DigitOf(c) ==
    CASE c = "0" -> 0 [] c = "1" -> 1 [] c = "2" -> 2 [] c = "3" -> 3 [] c = "4" -> 4
      [] c = "5" -> 5 [] c = "6" -> 6 [] c = "7" -> 7 [] c = "8" -> 8 [] c = "9" -> 9
      [] OTHER -> -1

\* whether pd.to_datetime can parse the text "HH:MM" of a created_at
Parseable(s) ==
    /\ Len(s) = 5
    /\ s[3] = ":"
    /\ \A i \in {1, 2, 4, 5} : DigitOf(s[i]) >= 0
    /\ DigitOf(s[1]) * 10 + DigitOf(s[2]) < 24
    /\ DigitOf(s[4]) * 10 + DigitOf(s[5]) < 60

\* the timestamp, in minutes, of a parseable text
ParseMinutes(s) ==
    (DigitOf(s[1]) * 10 + DigitOf(s[2])) * 60 + DigitOf(s[4]) * 10 + DigitOf(s[5])

\* pd.to_datetime(df['created_at']) raises on a missing column and on a text
\* it cannot parse
ToDatetimeRaises(f) ==
    \/ "created_at" \notin f.columns
    \/ \E i \in 1..Len(f.rows) :
          /\ ~IsNA(f.rows[i]["created_at"])
          /\ ~Parseable(f.rows[i]["created_at"].v)

\* df['created_at'] = pd.to_datetime(df['created_at'])
ToDatetime(f) ==
    [columns |-> f.columns,
     rows |-> [i \in 1..Len(f.rows) |->
                 [f.rows[i] EXCEPT !["created_at"] =
                     IF IsNA(@) THEN NaN ELSE Ts(ParseMinutes(@.v))]]]

----------------------------------------------------------------------------
Init ==
    /\ pc = "fetch"
    /\ data = NotFetched
    /\ df = NoFrame
    /\ total = 0
    /\ q_pass = <<>>
    /\ pass_counts = <<>>
    /\ df_time = <<>>
    /\ search_id = <<>>
    /\ display_df = <<>>
    /\ choice = 0
    /\ selected = NaN
    /\ row = 0
    /\ table = <<>>
    /\ csv = <<>>
    /\ outputs = {}
    /\ errorShown = FALSE
    /\ emptyShown = FALSE

\* line 28: data = fetch_data(), which returns the rows or raises
Fetch(Batches) ==
    /\ pc = "fetch"
    /\ \E outcome \in {"raise", "none", "rows"} :
          IF outcome = "raise"
          THEN /\ pc' = "except"
               /\ UNCHANGED data
          ELSE /\ pc' = "check"
               /\ IF outcome = "none"
                  THEN data' = NoData
                  ELSE \E b \in Batches : data' = Rows(b)
    /\ UNCHANGED <<df, total, q_pass, pass_counts, df_time, search_id, display_df,
                   choice, selected, row, table, csv, outputs, errorShown, emptyShown>>

\* lines 29-31: if not data: st.info(...); st.stop()
EmptyStop ==
    /\ pc = "check"
    /\ Falsy(data)
    /\ emptyShown' = TRUE
    /\ pc' = "stopped"
    /\ UNCHANGED <<data, df, total, q_pass, pass_counts, df_time, search_id,
                   display_df, choice, selected, row, table, csv, outputs, errorShown>>

\* lines 33-35: df = pd.DataFrame(data); df['created_at'] = pd.to_datetime(...)
Normalize ==
    /\ pc = "check"
    /\ ~Falsy(data)
    /\ LET f == DataFrame(data.rows)
       IN  IF ToDatetimeRaises(f)
           THEN /\ df' = f
                /\ pc' = "except"
           ELSE /\ df' = ToDatetime(f)
                /\ pc' = "total"
    /\ UNCHANGED <<data, total, q_pass, pass_counts, df_time, search_id, display_df,
                   choice, selected, row, table, csv, outputs, errorShown, emptyShown>>

----------------------------------------------------------------------------
(* Lines 37-76: the metrics and the two charts. *)

PassPrefix == <<"O", ":">>

\* str.startswith(p) of one string
StartsWith(s, p) == Len(s) >= Len(p) /\ SubSeq(s, 1, Len(p)) = p

\* PassCount with the prefix compared without regard to case
PassCountAnyCase(f, col) ==
    Cardinality({i \in 1..Len(f.rows) :
                    /\ ~IsNA(f.rows[i][col])
                    /\ \/ StartsWith(f.rows[i][col].v, PassPrefix)
                       \/ StartsWith(f.rows[i][col].v, <<"o", ":">>)})

\* df[col].str.startswith("O:").sum(): a null cell gives NaN, which sum() skips
PassCount(f, col) ==
    Cardinality({i \in 1..Len(f.rows) :
                    /\ ~IsNA(f.rows[i][col])
                    /\ StartsWith(f.rows[i][col].v, PassPrefix)})

FeedbackCols == <<"feedback_1", "feedback_2", "feedback_3">>

\* df['feedback_i'] raises KeyError when no record carries the key
PassCountsRaise(f) == \E k \in 1..3 : FeedbackCols[k] \notin f.columns

\* PassFailRows with the fail count recomputed from the "X:" prefix instead of
\* taken as the complement
PassFailRowsRecount(f, qp) ==
    [k \in 1..3 |->
        [pass |-> qp[k],
         fail |-> Cardinality({i \in 1..Len(f.rows) :
                      /\ ~IsNA(f.rows[i][FeedbackCols[k]])
                      /\ StartsWith(f.rows[i][FeedbackCols[k]].v, <<"X", ":">>)})]]

\* lines 62-66: '정답수' is the pass count and '오답수' is len(df) minus it
PassFailRows(f, qp) ==
    [k \in 1..3 |-> [pass |-> qp[k], fail |-> Len(f.rows) - qp[k]]]

\* the start of the hour of a timestamp in minutes
FloorHour(t) == (t \div 60) * 60

Minimum(S) == CHOOSE x \in S : \A y \in S : x <= y
Maximum(S) == CHOOSE x \in S : \A y \in S : x >= y

\* Resample as a plain group-by of the truncated hour: only the hours with a
\* submission
ResampleSparse(f) ==
    LET hours == {FloorHour(f.rows[i]["created_at"].v[1]) : i \in 1..Len(f.rows)}
    IN  [k \in 1..Cardinality(hours) |->
            LET h == CHOOSE x \in hours : Cardinality({y \in hours : y < x}) = k - 1
            IN  [created_at |-> h,
                 count |-> Cardinality({i \in 1..Len(f.rows) :
                              FloorHour(f.rows[i]["created_at"].v[1]) = h})]]

\* Resample with the bin of the last hour left out
ResampleOpenEnd(f) ==
    LET hours == {FloorHour(f.rows[i]["created_at"].v[1]) : i \in 1..Len(f.rows)}
        lo == Minimum(hours)
        hi == Maximum(hours)
    IN  [k \in 1..((hi - lo) \div 60) |->
            [created_at |-> lo + (k - 1) * 60,
             count |-> Cardinality({i \in 1..Len(f.rows) :
                          FloorHour(f.rows[i]["created_at"].v[1]) = lo + (k - 1) * 60})]]

\* line 74: df.set_index('created_at').resample('H').size(): one bin for every
\* hour from the first hour with a submission to the last one, empty or not
Resample(f) ==
    LET hours == {FloorHour(f.rows[i]["created_at"].v[1]) : i \in 1..Len(f.rows)}
        lo == Minimum(hours)
        hi == Maximum(hours)
    IN  [k \in 1..((hi - lo) \div 60 + 1) |->
            [created_at |-> lo + (k - 1) * 60,
             count |-> Cardinality({i \in 1..Len(f.rows) :
                          FloorHour(f.rows[i]["created_at"].v[1]) = lo + (k - 1) * 60})]]

\* lines 38-40: st.metric("총 제출 인원", len(df))
TotalMetric ==
    /\ pc = "total"
    /\ total' = Len(df.rows)
    /\ outputs' = outputs \cup {"total"}
    /\ pc' = "passcount"
    /\ UNCHANGED <<data, df, q_pass, pass_counts, df_time, search_id, display_df,
                   choice, selected, row, table, csv, errorShown, emptyShown>>

\* lines 43-45: q1_pass, q2_pass, q3_pass
PassCounts ==
    /\ pc = "passcount"
    /\ IF PassCountsRaise(df)
       THEN /\ pc' = "except"
            /\ UNCHANGED q_pass
       ELSE /\ q_pass' = [k \in 1..3 |-> PassCount(df, FeedbackCols[k])]
            /\ pc' = "rates"
    /\ UNCHANGED <<data, df, total, pass_counts, df_time, search_id, display_df,
                   choice, selected, row, table, csv, outputs, errorShown, emptyShown>>

\* lines 47-52: the three pass-rate metrics
RateMetrics ==
    /\ pc = "rates"
    /\ outputs' = outputs \cup {"rates"}
    /\ pc' = "passfail"
    /\ UNCHANGED <<data, df, total, q_pass, pass_counts, df_time, search_id,
                   display_df, choice, selected, row, table, csv, errorShown, emptyShown>>

\* lines 60-70: the pass/fail bar chart
PassFailChart ==
    /\ pc = "passfail"
    /\ pass_counts' = PassFailRows(df, q_pass)
    /\ outputs' = outputs \cup {"passfail"}
    /\ pc' = "hourly"
    /\ UNCHANGED <<data, df, total, q_pass, df_time, search_id, display_df,
                   choice, selected, row, table, csv, errorShown, emptyShown>>

\* lines 72-76: the hourly line chart
HourlyChart ==
    /\ pc = "hourly"
    /\ df_time' = Resample(df)
    /\ outputs' = outputs \cup {"hourly"}
    /\ pc' = "search"
    /\ UNCHANGED <<data, df, total, q_pass, pass_counts, search_id, display_df,
                   choice, selected, row, table, csv, errorShown, emptyShown>>

----------------------------------------------------------------------------
(* Lines 83-87: the search box.  Series.str.contains(pat) treats pat as a  *)
(* regular expression (regex=True is its default) and searches each value  *)
(* with re.search.  The patterns of the model are written with literal     *)
(* characters, '.', '*' and '['.                                           *)

\* re.compile(q) fails: an unterminated character set, or nothing to repeat,
\* or a repeat of a repeat
RegexError(q) ==
    \/ \E i \in 1..Len(q) : q[i] = "["
    \/ (q # <<>> /\ q[1] = "*")
    \/ \E i \in 1..(Len(q) - 1) : q[i] = "*" /\ q[i + 1] = "*"

\* the pattern as a sequence of atoms, each a character (or '.') with or
\* without a following '*'
RECURSIVE ParseRegex(_)
ParseRegex(q) ==
    IF q = <<>> THEN <<>>
    ELSE IF Len(q) >= 2 /\ q[2] = "*"
         THEN <<[c |-> q[1], star |-> TRUE]>> \o ParseRegex(SubSeq(q, 3, Len(q)))
         ELSE <<[c |-> q[1], star |-> FALSE]>> \o ParseRegex(Tail(q))

AtomMatches(a, ch) == a.c = "." \/ a.c = ch

\* whether the atoms match s from position j on
RECURSIVE MatchAt(_, _, _)
MatchAt(atoms, s, j) ==
    IF atoms = <<>> THEN TRUE
    ELSE LET a == Head(atoms)
         IN  IF a.star
             THEN \/ MatchAt(Tail(atoms), s, j)
                  \/ (j <= Len(s) /\ AtomMatches(a, s[j]) /\ MatchAt(atoms, s, j + 1))
             ELSE j <= Len(s) /\ AtomMatches(a, s[j]) /\ MatchAt(Tail(atoms), s, j + 1)

\* re.search(q, s) is not None
ReSearch(q, s) == \E j \in 1..(Len(s) + 1) : MatchAt(ParseRegex(q), s, j)

\* Series.str.contains(q) of one value
StrContains(q, s) == ReSearch(q, s)

\* line 85 raises: no student_id column, a pattern that does not compile, or a
\* null student_id (its mask entry is NaN and the frame cannot be indexed by it)
SearchRaises(f, q) ==
    \/ "student_id" \notin f.columns
    \/ RegexError(q)
    \/ \E i \in 1..Len(f.rows) : IsNA(f.rows[i]["student_id"])

Labels(f) == [i \in 1..Len(f.rows) |-> i]

\* df[df['student_id'].str.contains(q)]: the labels of the rows kept, in order
FilterRows(f, q) ==
    LET Keep(i) == StrContains(q, f.rows[i]["student_id"].v)
    IN  SelectSeq(Labels(f), Keep)

\* lines 83-87: search_id = st.text_input(...); display_df = ...
Search(Queries) ==
    /\ pc = "search"
    /\ \E q \in Queries :
          /\ search_id' = q
          /\ IF q = <<>>
             THEN /\ display_df' = Labels(df)
                  /\ pc' = "detail"
             ELSE IF SearchRaises(df, q)
                  THEN /\ pc' = "except"
                       /\ UNCHANGED display_df
                  ELSE /\ display_df' = FilterRows(df, q)
                       /\ pc' = "detail"
    /\ UNCHANGED <<data, df, total, q_pass, pass_counts, df_time, choice, selected,
                   row, table, csv, outputs, errorShown, emptyShown>>

----------------------------------------------------------------------------
(* Lines 89-110: the detail panel. *)

\* the columns the panel reads from the row, in the order it reads them
DetailCols == <<"answer_1", "feedback_1", "answer_2", "feedback_2",
                "answer_3", "feedback_3", "created_at", "model">>

\* line 94: display_df[display_df['student_id'] == selected].iloc[0], the first
\* row of the view with that student_id (0 when there is none)
FirstRowOf(f, view, sel) ==
    LET hits == {k \in 1..Len(view) : f.rows[view[k]]["student_id"] = sel /\ ~IsNA(sel)}
    IN  IF hits = {} THEN 0 ELSE view[Minimum(hits)]

Detail ==
    /\ pc = "detail"
    /\ IF display_df = <<>>
       THEN /\ pc' = "table"
            /\ UNCHANGED <<choice, selected, row, outputs>>
       ELSE IF "student_id" \notin df.columns
       THEN /\ pc' = "except"
            /\ UNCHANGED <<choice, selected, row, outputs>>
       ELSE \E k \in 1..Len(display_df) :
               /\ choice' = k
               /\ selected' = df.rows[display_df[k]]["student_id"]
               /\ row' = FirstRowOf(df, display_df, selected')
               /\ IF row' = 0 \/ DetailCols[1] \notin df.columns
                  THEN /\ pc' = "except"
                       /\ UNCHANGED outputs
                  ELSE /\ outputs' = outputs \cup {"detail"}
                       /\ pc' = IF \A n \in 1..Len(DetailCols) : DetailCols[n] \in df.columns
                                THEN "table" ELSE "except"
    /\ UNCHANGED <<data, df, total, q_pass, pass_counts, df_time, search_id,
                   display_df, table, csv, errorShown, emptyShown>>

----------------------------------------------------------------------------
(* Lines 112-124: the table and the CSV export. *)

CreatedAt(f, i) == f.rows[i]["created_at"].v[1]

\* df.sort_values(by="created_at", ascending=False): the labels, latest first,
\* rows of equal created_at in their order in df
SortDescending(f) ==
    LET n == Len(f.rows)
        Before(i, j) == \/ CreatedAt(f, i) > CreatedAt(f, j)
                        \/ (CreatedAt(f, i) = CreatedAt(f, j) /\ i < j)
    IN  [k \in 1..n |->
            CHOOSE i \in 1..n : Cardinality({j \in 1..n : Before(j, i)}) = k - 1]

DigitChar(n) ==
    CASE n = 0 -> "0" [] n = 1 -> "1" [] n = 2 -> "2" [] n = 3 -> "3" [] n = 4 -> "4"
      [] n = 5 -> "5" [] n = 6 -> "6" [] n = 7 -> "7" [] n = 8 -> "8" [] n = 9 -> "9"

\* the text of a timestamp
FormatMinutes(t) ==
    <<DigitChar((t \div 60) \div 10), DigitChar((t \div 60) % 10), ":",
      DigitChar((t % 60) \div 10), DigitChar((t % 60) % 10)>>

\* df.to_csv(index=False): the rows of df in the order of df, each timestamp
\* written as text
ToCsv(f) ==
    [i \in 1..Len(f.rows) |->
        [f.rows[i] EXCEPT !["created_at"] = Str(FormatMinutes(@.v[1]))]]

\* line 115: st.dataframe(df.sort_values(by="created_at", ascending=False))
Table ==
    /\ pc = "table"
    /\ table' = SortDescending(df)
    /\ outputs' = outputs \cup {"table"}
    /\ pc' = "export"
    /\ UNCHANGED <<data, df, total, q_pass, pass_counts, df_time, search_id,
                   display_df, choice, selected, row, csv, errorShown, emptyShown>>

\* lines 118-124: csv = df.to_csv(index=False)...; st.download_button(...)
Export ==
    /\ pc = "export"
    /\ csv' = ToCsv(df)
    /\ outputs' = outputs \cup {"export"}
    /\ pc' = "done"
    /\ UNCHANGED <<data, df, total, q_pass, pass_counts, df_time, search_id,
                   display_df, choice, selected, row, table, errorShown, emptyShown>>

\* lines 126-128: except Exception as e: st.error(...); st.info(...)
Except ==
    /\ pc = "except"
    /\ errorShown' = TRUE
    /\ pc' = "failed"
    /\ UNCHANGED <<data, df, total, q_pass, pass_counts, df_time, search_id,
                   display_df, choice, selected, row, table, csv, outputs, emptyShown>>

----------------------------------------------------------------------------
(* The record sets and the search texts the runs are checked over. *)

\* a record with every field the page reads
BaseRecord ==
    [student_id |-> Str(<<"1", "0", "1">>),
     answer_1 |-> Str(<<"a">>), answer_2 |-> Str(<<"b">>), answer_3 |-> Str(<<"c">>),
     feedback_1 |-> Str(<<"O", ":">>), feedback_2 |-> Str(<<"O", ":">>),
     feedback_3 |-> Str(<<"X", ":">>),
     model |-> Str(<<"m">>),
     created_at |-> Str(<<"0", "9", ":", "1", "2">>)]

With(r, k, x) == [c \in DOMAIN r \cup {k} |-> IF c = k THEN x ELSE r[c]]
Without(r, k) == [c \in DOMAIN r \ {k} |-> r[c]]

Batches(Records) == SeqsUpTo(Records, MaxRecords)

\* records that differ in created_at: the hours 09..09+MaxHour, two minutes in
\* each, and one text that is not a time
TimeTexts == {FormatMinutes((9 + h) * 60 + m) : h \in 0..MaxHour, m \in {12, 47}}
TimeRecords ==
    {With(BaseRecord, "created_at", Str(t)) : t \in TimeTexts \cup {<<"x">>}}
TimeQueries == {<<>>, <<"1">>}

\* records that differ in student_id, a second submission of one student, a
\* record with a null id, and the search texts over the characters of the ids
\* and the characters a regular expression reads
StudentIds == {<<"1", "0", "1">>, <<"1", ".", "1">>, <<"2", "0">>}
FilterRecords ==
    {With(BaseRecord, "student_id", Str(s)) : s \in StudentIds}
        \cup {With(BaseRecord, "answer_1", Str(<<"z">>)),
              With(BaseRecord, "student_id", None)}
QueryChars == {"1", "0", ".", "*", "["}
FilterQueries == SeqsUpTo(QueryChars, MaxQueryLen)

\* records that differ in the feedback: texts with and without the prefix, a
\* null, and records without the key
FeedbackTexts ==
    {<<"O", ":", "a">>, <<"o", ":">>, <<"O">>, <<>>, <<"X", ":">>}
Feedback1Records ==
    {With(BaseRecord, "feedback_1", Str(t)) : t \in FeedbackTexts}
        \cup {With(BaseRecord, "feedback_1", None), Without(BaseRecord, "feedback_1")}
Feedback2Records ==
    UNION {{r, Without(r, "feedback_2")} : r \in Feedback1Records}
MetricRecords ==
    UNION {{r, With(r, "feedback_3", Str(<<"O", ":">>))} : r \in Feedback2Records}
MetricQueries == {<<>>, <<"2">>}

\* a few records of every kind
MixedRecords ==
    {BaseRecord,
     With(With(BaseRecord, "student_id", Str(<<"2", "0">>)),
          "created_at", Str(<<"1", "1", ":", "4", "7">>)),
     With(BaseRecord, "feedback_1", Str(<<"o", ":">>)),
     Without(BaseRecord, "answer_2"),
     Without(BaseRecord, "feedback_3"),
     With(BaseRecord, "created_at", Str(<<"x">>))}
MixedQueries == {<<>>, <<"1">>, <<"2", "0">>, <<".">>, <<"[">>}

Rest ==
    \/ EmptyStop
    \/ Normalize
    \/ TotalMetric
    \/ PassCounts
    \/ RateMetrics
    \/ PassFailChart
    \/ HourlyChart
    \/ Detail
    \/ Table
    \/ Export
    \/ Except

Next == Fetch(Batches(MixedRecords)) \/ Search(MixedQueries) \/ Rest
Spec == Init /\ [][Next]_vars

NextTime == Fetch(Batches(TimeRecords)) \/ Search(TimeQueries) \/ Rest
SpecTime == Init /\ [][NextTime]_vars

NextFilter == Fetch(Batches(FilterRecords)) \/ Search(FilterQueries) \/ Rest
SpecFilter == Init /\ [][NextFilter]_vars

NextMetrics == Fetch(Batches(MetricRecords)) \/ Search(MetricQueries) \/ Rest
SpecMetrics == Init /\ [][NextMetrics]_vars

----------------------------------------------------------------------------
(* The properties. *)

\* the run is past the search box without an exception
Searched == pc \in {"detail", "table", "export", "done"}

\* q occurs in s as a plain substring
Contains(s, q) == \E j \in 0..(Len(s) - Len(q)) : SubSeq(s, j + 1, j + Len(q)) = q

\* C1: with a non-empty search text the view holds exactly the submissions whose
\* student_id contains the text as a plain, case-sensitive substring, '.', '*'
\* and '[' standing for themselves.
C1_PlainSubstring ==
    (Searched /\ search_id # <<>>) =>
        display_df = SelectSeq(Labels(df),
                        LAMBDA i : Contains(df.rows[i]["student_id"].v, search_id))

\* C2: the rows of the export buffer are in descending order of created_at.
C2_ExportDescending ==
    ("export" \in outputs) =>
        \A i, j \in 1..Len(csv) :
            i < j => ParseMinutes(csv[i]["created_at"].v) >= ParseMinutes(csv[j]["created_at"].v)

\* the hour a timestamp lies in
HourOf(t) == t - (t % 60)

\* the number of submissions whose created_at lies in the hour starting at h
InHour(h) == Cardinality({i \in 1..Len(df.rows) : HourOf(CreatedAt(df, i)) = h})

C4_NoPartialResults == errorShown => outputs = {}

\* the fields the page reads from every record
RequiredFields ==
    {"student_id", "answer_1", "answer_2", "answer_3",
     "feedback_1", "feedback_2", "feedback_3", "model", "created_at"}

\* a record lacks a required field or has a created_at that is not a time
InvalidRecord(r) ==
    \/ \E c \in RequiredFields : c \notin DOMAIN r
    \/ ("created_at" \in DOMAIN r /\ ~IsNA(r["created_at"]) /\ ~Parseable(r["created_at"].v))

\* C5: a batch with one invalid record fails as a whole: the run ends in the
\* error and nothing is computed from the batch.
C5_AllOrNothing ==
    (data.kind = "rows" /\ \E i \in 1..Len(data.rows) : InvalidRecord(data.rows[i])) =>
        /\ outputs = {}
        /\ pc # "done"

\* C6: the submission shown in the detail panel is the one picked in the select
\* box, also when other submissions of the view carry the same student_id.
C6_PickedIsShown ==
    ("detail" \in outputs) => df.rows[row] = df.rows[display_df[choice]]

\* C7: an empty fetch ends the run in the empty-data state: the information is
\* shown, the error is not, and nothing is computed.
C7_EmptyState ==
    /\ (pc \notin {"fetch", "check"} /\ data.kind # "unset"
            /\ (data.kind = "none" \/ Len(data.rows) = 0)) =>
          /\ pc = "stopped"
          /\ emptyShown
          /\ ~errorShown
          /\ outputs = {}
          /\ df = NoFrame /\ q_pass = <<>> /\ pass_counts = <<>> /\ df_time = <<>>
          /\ display_df = <<>> /\ row = 0 /\ table = <<>> /\ csv = <<>>
    /\ emptyShown => (data.kind = "none" \/ Len(data.rows) = 0)

\* the fetch returned an empty list and the run has stopped
C7_Witness == pc = "stopped" /\ data.kind = "rows" /\ data.rows = <<>> /\ emptyShown

\* C8: the counts of the buckets sum to the number of submissions, and each
\* submission is counted in exactly one bucket, the one of its hour.
C8_BucketSum ==
    ("hourly" \in outputs) =>
        /\ SumSeq([k \in 1..Len(df_time) |-> df_time[k].count]) = Len(df.rows)
        /\ \A i \in 1..Len(df.rows) :
              Cardinality({k \in 1..Len(df_time) :
                              df_time[k].created_at = HourOf(CreatedAt(df, i))}) = 1
        /\ \A k \in 1..Len(df_time) : df_time[k].count = InHour(df_time[k].created_at)

\* two submissions of the same hour at different minutes make one bucket of 2
C8_Witness ==
    /\ "hourly" \in outputs
    /\ Len(df.rows) = 2
    /\ CreatedAt(df, 1) # CreatedAt(df, 2)
    /\ Len(df_time) = 1
    /\ df_time[1].count = 2

\* C9: for each question the pass and the fail count add up to the total, and
\* the pass count lies between 0 and the total.
C9_PassFailTotal ==
    ("passfail" \in outputs) =>
        \A k \in 1..3 :
            /\ pass_counts[k].pass + pass_counts[k].fail = total
            /\ 0 <= pass_counts[k].pass
            /\ pass_counts[k].pass <= total
            /\ total = Len(data.rows)

\* a question some passed and some did not
C9_Witness ==
    /\ "passfail" \in outputs
    /\ total = 2
    /\ pass_counts[1].pass = 1
    /\ pass_counts[1].fail = 1

\* the feedback of question k in record r begins with "O:"
BeginsWithPass(r, k) ==
    LET c == FeedbackCols[k]
    IN  /\ c \in DOMAIN r
        /\ r[c].kind = "str"
        /\ Len(r[c].v) >= 2
        /\ r[c].v[1] = "O"
        /\ r[c].v[2] = ":"

PassCountsExact ==
    (q_pass # <<>>) =>
        \A k \in 1..3 :
            q_pass[k] = Cardinality({i \in 1..Len(data.rows) : BeginsWithPass(data.rows[i], k)})

\* the pass counts raised: the run is in the except branch with the total as
\* its only output
PassCountsRaised == pc \in {"except", "failed"} /\ outputs = {"total"}

\* no record of the batch carries the key of some feedback
MissingEverywhere ==
    /\ data.kind = "rows"
    /\ \E k \in 1..3 : \A i \in 1..Len(data.rows) : FeedbackCols[k] \notin DOMAIN data.rows[i]

====
